---- MODULE Spec2Model ----
(***************************************************************************)
(* AnalyzePage (frontend/app/(dashboard)/layout.tsx): the submit-and-poll  *)
(* workflow of handleAnalyze.  One React component holds url,              *)
(* analysisResult, loading and error; every click on the analyze button    *)
(* runs handleAnalyze, which POSTs the job, then creates one setInterval   *)
(* poll timer and one setTimeout deadline timer.  JavaScript callbacks run *)
(* to completion, so every action below is one callback (or the            *)
(* continuation of one await).  The last part models run.sh, the script   *)
(* that starts the services and waits for them to be ready.                *)
(***************************************************************************)
EXTENDS Naturals, FiniteSets, Sequences, TLC

\* ---- bounds of the model ------------------------------------------------
MaxSubs == 2        \* invocations of handleAnalyze
MaxTicks == 4       \* interval ticks explored, all submissions together
MaxInflight == 2    \* status requests awaiting their response at one time

\* ---- program constants --------------------------------------------------
PollIntervalMs == 2000
TimeoutMs == 120000

\* The messages of the page, in the order the source sets them:
\*   ErrEmptyUrl      '请输入网站URL'        (line 42)
\*   ErrSubmitFailed  '分析提交失败'         (line 64)
\*   ErrJobFailed     '分析失败，请重试'     (line 81)
\*   ErrTimeout       '分析超时，请重试'     (line 95)
\*   ErrTransport     err.message of the TypeError fetch rejects with (line 101)
\*   ErrBadJson       err.message of the SyntaxError response.json() rejects with
NoError == ""
ErrEmptyUrl == "empty-url"
ErrSubmitFailed == "submit-failed"
ErrJobFailed == "job-failed"
ErrTimeout == "timeout"
ErrTransport == "Failed to fetch"
ErrBadJson == "Unexpected token"

\* null (no result) and undefined (the analysis_id of a body without one),
\* as values of the same shape as the ones they stand in for.
Null == [status |-> "null", website_id |-> 0]
Undefined == 0

\* Texts the user can have typed into the url input.
EmptyUrl == ""
NotAUrl == "not a url"
GoodUrl == "https://example.com"
Urls == {EmptyUrl, NotAUrl, GoodUrl}

\* Whether new URL(u) parses: "syntactically a URL", for the input texts.
IsUrlSyntax(u) == u = GoodUrl

SubIds == 1..MaxSubs

\* Outcomes of the create-job POST as handleAnalyze sees them: fetch
\* rejects, the response is not ok, response.json() rejects, the body has
\* no analysis_id, the body has one.
PostOutcomes == {"throw", "non2xx", "badjson", "noid", "ok"}

\* Status values the backend reports for a job.
JobStatuses == {"pending", "running", "completed", "failed"}

\* What a status GET can come back with: the transport throws, the server
\* answers non-2xx, or it answers 2xx with a status.
PollOutcomes == {"throw", "non2xx"} \cup JobStatuses

NoPoll == <<0, "none">>

\* ---- the body of a completed job (interface AnalysisResult) -------------
\* The identity fields and the optional sections of the interface.  A body
\* is the set of fields the JSON has, each with a value: "empty" is {} and
\* "full" is a value with content; a field that is not in the body is
\* undefined on the parsed object.
IdentityFields == {"website_id", "url"}

Sections == {"intent_analysis", "technology_stack", "user_experience"}

SectionValues == {"empty", "full"}

Bodies ==
    {b \in UNION {[F -> SectionValues] : F \in SUBSET (IdentityFields \cup Sections)} :
        \A f \in DOMAIN b \cap IdentityFields : b[f] = "full"}

\* The body with every field, each with content.
FullBody == [f \in IdentityFields \cup Sections |-> "full"]

\* ---- run.sh: attempt limits of its readiness loops ----------------------
DbAttempts == 30
RedisAttempts == 30
max_attempts == 60

Checks == {"database", "redis", "backend", "frontend"}

\* The shell before its first command: where it is in the script, the
\* value of $attempt, the readiness checks that succeeded, and whether the
\* "running successfully" banner was printed.
ShStart == [pc |-> "preflight", attempt |-> 0, ok |-> {}, banner |-> FALSE]

VARIABLES
    url,             \* useState('')      the input text
    analysisResult,  \* useState(null)    Null or a status payload
    loading,         \* useState(false)
    error,           \* useState('')
    nsubs,           \* number of handleAnalyze invocations so far
    subs,            \* per invocation: the locals and timers of its closure
    posts,           \* create-job POSTs sent and not yet answered
    job,             \* backend: status of the job each submission created
    inflight,        \* status GETs sent and not yet answered, per invocation
    last,            \* history: the status answer processed last
                     \* <<invocation, answer>>
    delivered,       \* history: terminal outcomes each invocation delivered
    thrown,          \* history: polls of the latest invocation that threw
    overlap,         \* history: a poll loop was cancelled while another
                     \* invocation's timers were running
    mounted,         \* the page component is mounted (not navigated away)
    body,            \* backend: the fields the body of a completed job has
    sh               \* run.sh: the shell process (see the last section)

vars == <<url, analysisResult, loading, error, nsubs, subs, posts, job,
          inflight, last, delivered, thrown, overlap, mounted, body, sh>>

\* The closure of an invocation that has not happened yet.
NoSub == [phase |-> "idle", loading |-> FALSE,
          analysis_id |-> Undefined, pollInterval |-> FALSE,
          deadline |-> FALSE, ticks |-> 0]

PageInit ==
    /\ url = EmptyUrl
    /\ analysisResult = Null
    /\ loading = FALSE
    /\ error = NoError
    /\ nsubs = 0
    /\ subs = [s \in SubIds |-> NoSub]
    /\ posts = {}
    /\ job = [s \in SubIds |-> "none"]
    /\ inflight = [s \in SubIds |-> 0]
    /\ last = NoPoll
    /\ delivered = [s \in SubIds |-> 0]
    /\ thrown = 0
    /\ overlap = FALSE
    /\ mounted = TRUE
    /\ sh = ShStart

\* The backend of the page answers a completed job with the full body.
Init ==
    /\ PageInit
    /\ body = FullBody

\* ---- the state setters --------------------------------------------------
\* React drops a state update of a component that is no longer mounted.
setAnalysisResult(v) == analysisResult' = IF mounted THEN v ELSE analysisResult

setLoading(v) == loading' = IF mounted THEN v ELSE loading

setError(v) == error' = IF mounted THEN v ELSE error

\* History: invocation s delivers a terminal outcome to the mounted page.
Deliver(s) ==
    delivered' = [delivered EXCEPT ![s] = IF mounted THEN @ + 1 ELSE @]

\* ---- the url input (onChange, disabled while loading) -------------------
\* The input is followed as long as a further click is explored.
setUrl(u) ==
    /\ mounted
    /\ ~loading
    /\ nsubs < MaxSubs
    /\ u # url
    /\ url' = u
    /\ UNCHANGED <<analysisResult, loading, error, nsubs, subs, posts, job,
                   inflight, last, delivered, thrown, overlap>>
    /\ UNCHANGED <<mounted, body, sh>>

\* ---- the analyze button -------------------------------------------------
\* disabled={loading || !url}
ButtonDisabled == loading \/ url = EmptyUrl

\* handleAnalyze up to its first await: validation, reset, POST sent.
\* The closure keeps the loading value of the render that created it.
handleAnalyze ==
    /\ nsubs < MaxSubs
    /\ nsubs' = nsubs + 1
    /\ IF url = EmptyUrl
       THEN /\ error' = ErrEmptyUrl
            /\ subs' = [subs EXCEPT ![nsubs + 1] =
                          [NoSub EXCEPT !.phase = "rejected",
                                        !.loading = loading]]
            /\ UNCHANGED <<analysisResult, loading, posts>>
       ELSE /\ loading' = TRUE
            /\ error' = NoError
            /\ analysisResult' = Null
            /\ subs' = [subs EXCEPT ![nsubs + 1] =
                          [NoSub EXCEPT !.phase = "posting",
                                        !.loading = loading]]
            /\ posts' = posts \cup {[sub |-> nsubs + 1, url |-> url]}
    /\ thrown' = 0
    /\ UNCHANGED <<url, job, inflight, last, delivered, overlap>>
    /\ UNCHANGED <<mounted, body, sh>>

ClickAnalyze ==
    /\ mounted
    /\ ~ButtonDisabled
    /\ handleAnalyze

\* ---- the create-job POST answers (continuation of lines 52 and 67) ------
\* The timers both start in the same continuation: setInterval (line 70),
\* then setTimeout (line 92).
startPolling(s, id) ==
    /\ subs' = [subs EXCEPT ![s].phase = "polling", ![s].analysis_id = id,
                            ![s].pollInterval = TRUE, ![s].deadline = TRUE]
    /\ UNCHANGED <<analysisResult, loading, error, delivered>>

\* catch (err) of handleAnalyze: lines 100-103.
submitCatch(s, msg) ==
    /\ setError(msg)
    /\ setLoading(FALSE)
    /\ subs' = [subs EXCEPT ![s].phase = "submitfailed"]
    /\ Deliver(s)
    /\ UNCHANGED analysisResult

\* What handleAnalyze does with each outcome of the POST.
onPost(s, r) ==
    CASE r = "throw"   -> submitCatch(s, ErrTransport) /\ UNCHANGED job
      [] r = "non2xx"  -> submitCatch(s, ErrSubmitFailed) /\ UNCHANGED job
      [] r = "badjson" -> submitCatch(s, ErrBadJson) /\ UNCHANGED job
      [] r = "noid"    -> startPolling(s, Undefined) /\ UNCHANGED job
      [] r = "ok"      -> /\ startPolling(s, s)
                          /\ job' = [job EXCEPT ![s] = "pending"]

PostResponse(s, r) ==
    /\ \E q \in posts : q.sub = s /\ posts' = posts \ {q}
    /\ onPost(s, r)
    /\ UNCHANGED <<url, nsubs, inflight, last, thrown, overlap>>
    /\ UNCHANGED <<mounted, body, sh>>

\* ---- the backend works on a job -----------------------------------------
JobAdvance(j, st) ==
    /\ \/ job[j] = "pending" /\ st = "running"
       \/ job[j] = "running" /\ st \in {"completed", "failed"}
    /\ job' = [job EXCEPT ![j] = st]
    /\ UNCHANGED <<url, analysisResult, loading, error, nsubs, subs, posts,
                   inflight, last, delivered, thrown, overlap>>
    /\ UNCHANGED <<mounted, body, sh>>

\* ---- the poll timer fires (setInterval callback up to its await) --------
\* What a GET for `id` comes back with: there is no job "undefined".  The
\* backend answers a GET some time before the answer is processed; the
\* answers that differ from the one it would give at processing time are
\* statuses of a job that is not yet done, which the callback ignores like
\* a non-2xx answer.
StatusAnswers(id) ==
    IF id = Undefined THEN {"throw", "non2xx"}
    ELSE {"throw", "non2xx", job[id]}

RECURSIVE SumOver(_, _)
SumOver(f, S) ==
    IF S = {} THEN 0
    ELSE LET x == CHOOSE y \in S : TRUE IN f[x] + SumOver(f, S \ {x})

NumInflight == SumOver(inflight, SubIds)

NumTicks == SumOver([s \in SubIds |-> subs[s].ticks], SubIds)

\* Timers run in the order they fall due: a tick every PollIntervalMs, the
\* deadline at TimeoutMs.  While the deadline timer is pending, no tick
\* that falls due after it runs; and no deadline runs before the first
\* tick (a tick the bound MaxTicks cuts off counts as run).
TickDue(s) ==
    \/ ~subs[s].deadline
    \/ (subs[s].ticks + 1) * PollIntervalMs <= TimeoutMs

DeadlineDue(s) ==
    \/ subs[s].ticks * PollIntervalMs > 0
    \/ TimeoutMs <= PollIntervalMs
    \/ NumTicks >= MaxTicks

\* One firing of the interval: the callback sends its GET.
pollTick(s) ==
    /\ subs[s].pollInterval
    /\ TickDue(s)
    /\ NumInflight < MaxInflight
    /\ inflight' = [inflight EXCEPT ![s] = @ + 1]
    /\ subs' = [subs EXCEPT ![s].ticks = @ + 1]
    /\ UNCHANGED <<url, analysisResult, loading, error, nsubs, posts, job,
                   last, delivered, thrown, overlap>>
    /\ UNCHANGED <<mounted, body, sh>>

\* The firings explored when several submissions are followed.
Tick(s) ==
    /\ NumTicks < MaxTicks
    /\ pollTick(s)

\* ---- a status response arrives (lines 73-88) ----------------------------
\* A variant that fills every section the body lacks with an empty one.
StatusResult_defaults(id, st) ==
    [f \in {"status"} \cup DOMAIN body \cup Sections |->
        IF f = "status" THEN st
        ELSE IF f = "website_id" THEN id
        ELSE IF f \in DOMAIN body THEN body[f]
        ELSE "empty"]

\* statusResult of a 2xx answer for job id: the parsed JSON, with the
\* fields the backend's body has and no others.
StatusResult(id, st) ==
    [f \in {"status"} \cup DOMAIN body |->
        IF f = "status" THEN st
        ELSE IF f = "website_id" THEN id
        ELSE body[f]]

\* Variants of clearInterval: one that stops nothing, one that stops the
\* poll timer of every invocation (a handle shared by all of them).
clearInterval_none(s) == subs

clearInterval_all(s) ==
    [t \in SubIds |-> [subs[t] EXCEPT !.pollInterval = FALSE]]

clearInterval(s) == [subs EXCEPT ![s].pollInterval = FALSE]

\* Variants of the poll callback: one whose failed branch leaves loading
\* set, one whose catch reports the transport error and stops the loop, one
\* that shows the body of every 2xx answer.
onStatus_failedKeepsLoading(s, r) ==
    CASE r = "completed" ->
            /\ setAnalysisResult(StatusResult(subs[s].analysis_id, r))
            /\ setLoading(FALSE)
            /\ subs' = clearInterval(s)
            /\ UNCHANGED error
      [] r = "failed" ->
            /\ setError(ErrJobFailed)
            /\ subs' = clearInterval(s)
            /\ UNCHANGED <<analysisResult, loading>>
      [] OTHER -> UNCHANGED <<analysisResult, loading, error, subs>>

onStatus_throwEscalates(s, r) ==
    CASE r = "completed" ->
            /\ setAnalysisResult(StatusResult(subs[s].analysis_id, r))
            /\ setLoading(FALSE)
            /\ subs' = clearInterval(s)
            /\ UNCHANGED error
      [] r \in {"failed", "throw"} ->
            /\ setError(ErrJobFailed)
            /\ setLoading(FALSE)
            /\ subs' = clearInterval(s)
            /\ UNCHANGED analysisResult
      [] OTHER -> UNCHANGED <<analysisResult, loading, error, subs>>

onStatus_showsEveryBody(s, r) ==
    CASE r = "completed" ->
            /\ setAnalysisResult(StatusResult(subs[s].analysis_id, r))
            /\ setLoading(FALSE)
            /\ subs' = clearInterval(s)
            /\ UNCHANGED error
      [] r = "failed" ->
            /\ setError(ErrJobFailed)
            /\ setLoading(FALSE)
            /\ subs' = clearInterval(s)
            /\ UNCHANGED analysisResult
      [] r \in {"pending", "running"} ->
            /\ setAnalysisResult(StatusResult(subs[s].analysis_id, r))
            /\ UNCHANGED <<loading, error, subs>>
      [] OTHER -> UNCHANGED <<analysisResult, loading, error, subs>>

\* The body of the poll callback after its awaits.
onStatus(s, r) ==
    CASE r = "completed" ->
            /\ setAnalysisResult(StatusResult(subs[s].analysis_id, r))
            /\ setLoading(FALSE)
            /\ subs' = clearInterval(s)
            /\ UNCHANGED error
      [] r = "failed" ->
            /\ setError(ErrJobFailed)
            /\ setLoading(FALSE)
            /\ subs' = clearInterval(s)
            /\ UNCHANGED analysisResult
      [] OTHER -> UNCHANGED <<analysisResult, loading, error, subs>>

\* Some other invocation has a timer running.
OthersRunning(s) ==
    \E t \in SubIds \ {s} : subs[t].pollInterval \/ subs[t].deadline

PollResponse(s, r) ==
    /\ inflight[s] > 0
    /\ r \in StatusAnswers(subs[s].analysis_id)
    /\ inflight' = [inflight EXCEPT ![s] = @ - 1]
    /\ last' = <<s, r>>
    /\ onStatus(s, r)
    /\ IF r \in {"completed", "failed"} THEN Deliver(s)
       ELSE UNCHANGED delivered
    /\ thrown' = IF r = "throw" /\ s = nsubs THEN thrown + 1 ELSE thrown
    /\ overlap' = (overlap \/ (r \in {"completed", "failed"} /\ OthersRunning(s)))
    /\ UNCHANGED <<url, nsubs, posts, job, mounted, body, sh>>

\* ---- the deadline timer fires (lines 92-98) -----------------------------
\* `loading` in the callback is the constant of the render whose
\* handleAnalyze created the timer, not the current state.
\* (first, a variant whose callback leaves the poll timer running)
onDeadline_keepsInterval(s) ==
    /\ subs' = [subs EXCEPT ![s].deadline = FALSE]
    /\ IF subs[s].loading
       THEN /\ setError(ErrTimeout)
            /\ setLoading(FALSE)
            /\ Deliver(s)
       ELSE UNCHANGED <<error, loading, delivered>>

onDeadline(s) ==
    /\ subs' = [clearInterval(s) EXCEPT ![s].deadline = FALSE]
    /\ IF subs[s].loading
       THEN /\ setError(ErrTimeout)
            /\ setLoading(FALSE)
            /\ Deliver(s)
       ELSE UNCHANGED <<error, loading, delivered>>

Deadline(s) ==
    /\ subs[s].deadline
    /\ DeadlineDue(s)
    /\ onDeadline(s)
    /\ overlap' = (overlap \/ OthersRunning(s))
    /\ UNCHANGED <<url, analysisResult, nsubs, posts, job, inflight, last,
                   thrown, mounted, body, sh>>

Next ==
    \/ \E u \in Urls : setUrl(u)
    \/ ClickAnalyze
    \/ \E s \in SubIds, r \in PostOutcomes : PostResponse(s, r)
    \/ \E j \in SubIds, st \in JobStatuses : JobAdvance(j, st)
    \/ \E s \in SubIds : Tick(s)
    \/ \E s \in SubIds, r \in PollOutcomes : PollResponse(s, r)
    \/ \E s \in SubIds : Deadline(s)

Spec == Init /\ [][Next]_vars

TypeOK ==
    /\ url \in Urls
    /\ loading \in BOOLEAN
    /\ nsubs \in 0..MaxSubs
    /\ NumInflight <= MaxInflight

\* ---- what the page renders of a result ----------------------------------
\* {analysisResult.intent_analysis && (...)} and its two siblings: the card
\* of a section is rendered when the field is there and truthy; {} is
\* truthy.
SectionShown(res, sec) == sec \in DOMAIN res /\ res[sec] \in SectionValues

\* ---- the page is left ---------------------------------------------------
\* The user navigates away and React unmounts AnalyzePage.  The component
\* registers no effect cleanup, so nothing of an invocation is cancelled.
Unmount ==
    /\ mounted
    /\ mounted' = FALSE
    /\ UNCHANGED <<url, analysisResult, loading, error, nsubs, subs, posts,
                   job, inflight, last, delivered, thrown, overlap, body, sh>>

NavNext ==
    \/ Next
    \/ Unmount

NavSpec == Init /\ [][NavNext]_vars

\* ---- one submission, any body of the completed job ---------------------
PayloadInit ==
    /\ PageInit
    /\ body \in Bodies

PayloadNext ==
    \/ \E u \in Urls : nsubs = 0 /\ setUrl(u)
    \/ nsubs = 0 /\ ClickAnalyze
    \/ \E r \in PostOutcomes : PostResponse(1, r)
    \/ \E st \in JobStatuses : JobAdvance(1, st)
    \/ Tick(1)
    \/ \E r \in PollOutcomes : PollResponse(1, r)
    \/ Deadline(1)

PayloadSpec == PayloadInit /\ [][PayloadNext]_vars

\* ---- one submission, every tick of its interval ------------------------
TimerNext ==
    \/ \E u \in Urls : nsubs = 0 /\ setUrl(u)
    \/ nsubs = 0 /\ ClickAnalyze
    \/ \E r \in PostOutcomes : PostResponse(1, r)
    \/ \E st \in JobStatuses : JobAdvance(1, st)
    \/ pollTick(1)
    \/ \E r \in PollOutcomes : PollResponse(1, r)
    \/ Deadline(1)

TimerSpec == Init /\ [][TimerNext]_vars

\* ---- run.sh ---------------------------------------------------------------
\* The script runs under set -e: a simple command that fails ends it.
pageVars == <<url, analysisResult, loading, error, nsubs, subs, posts, job,
              inflight, last, delivered, thrown, overlap, mounted, body>>

\* Lines 12-40: docker, docker compose and the docker daemon are there, or
\* exit 1.
Preflight(okay) ==
    /\ sh.pc = "preflight"
    /\ sh' = [sh EXCEPT !.pc = IF okay THEN "compose" ELSE "failed"]
    /\ UNCHANGED pageVars

\* Lines 45-69: .env, chmod, compose down (|| true), pull, build, up -d;
\* then attempt=1 of line 97.
Compose(okay) ==
    /\ sh.pc = "compose"
    /\ sh' = IF okay THEN [sh EXCEPT !.pc = "database", !.attempt = 1]
             ELSE [sh EXCEPT !.pc = "failed"]
    /\ UNCHANGED pageVars

\* Lines 98-106, one test of the loop condition and one pass of the body:
\* pg_isready succeeds and the loop breaks, or $attempt grows; when the
\* condition fails the script goes on to line 109.
waitDatabase(ready) ==
    /\ sh.pc = "database"
    /\ sh' = IF sh.attempt <= DbAttempts
             THEN IF ready
                  THEN [sh EXCEPT !.ok = @ \cup {"database"},
                                  !.pc = "redis", !.attempt = 1]
                  ELSE [sh EXCEPT !.attempt = @ + 1]
             ELSE [sh EXCEPT !.pc = "redis", !.attempt = 1]
    /\ UNCHANGED pageVars

\* Lines 111-119, likewise; when the condition fails the script goes on to
\* line 122.
waitRedis(ready) ==
    /\ sh.pc = "redis"
    /\ sh' = IF sh.attempt <= RedisAttempts
             THEN IF ready
                  THEN [sh EXCEPT !.ok = @ \cup {"redis"},
                                  !.pc = "backend", !.attempt = 1]
                  ELSE [sh EXCEPT !.attempt = @ + 1]
             ELSE [sh EXCEPT !.pc = "backend", !.attempt = 1]
    /\ UNCHANGED pageVars

\* What follows the wait for a service.
AfterService(service) == IF service = "backend" THEN "frontend" ELSE "banner"

\* wait_for_service, lines 75-93, called at lines 122 and 125: curl
\* succeeds and the function returns 0, or $attempt grows; when the
\* condition fails it returns 1, which ends the script.
wait_for_service(service, ready) ==
    /\ sh.pc = service
    /\ sh' = IF sh.attempt <= max_attempts
             THEN IF ready
                  THEN [sh EXCEPT !.ok = @ \cup {service},
                                  !.pc = AfterService(service),
                                  !.attempt = 1]
                  ELSE [sh EXCEPT !.attempt = @ + 1]
             ELSE [sh EXCEPT !.pc = "failed"]
    /\ UNCHANGED pageVars

\* Line 128.
Banner ==
    /\ sh.pc = "banner"
    /\ sh' = [sh EXCEPT !.banner = TRUE, !.pc = "browser"]
    /\ UNCHANGED pageVars

\* Lines 148-158: the browser is opened if a command for it exists; a
\* failing open ends the script before its last echo.
Browser(okay) ==
    /\ sh.pc = "browser"
    /\ sh' = [sh EXCEPT !.pc = IF okay THEN "done" ELSE "failed"]
    /\ UNCHANGED pageVars

RunNext ==
    \/ \E okay \in BOOLEAN : Preflight(okay)
    \/ \E okay \in BOOLEAN : Compose(okay)
    \/ \E ready \in BOOLEAN : waitDatabase(ready)
    \/ \E ready \in BOOLEAN : waitRedis(ready)
    \/ \E service \in {"backend", "frontend"}, ready \in BOOLEAN :
          wait_for_service(service, ready)
    \/ Banner
    \/ \E okay \in BOOLEAN : Browser(okay)

RunSpec == Init /\ [][RunNext]_vars

\* ---- how a step shows which callback ran --------------------------------
\* handleAnalyze was invoked.
SubmitStep == nsubs' = nsubs + 1

\* The POST of invocation s was answered.
PostStep(s) == \E q \in posts : q.sub = s /\ q \notin posts'

\* A status answer of invocation s was processed / was processed as r.
PollStepOf(s) == inflight[s] = inflight'[s] + 1

PollStep(s, r) == PollStepOf(s) /\ last' = <<s, r>>

\* The deadline timer of invocation s fired.
DeadlineStep(s) == subs[s].deadline /\ ~subs'[s].deadline

\* Invocation s has had a terminal outcome: one of its polls saw completed
\* or failed, or its deadline fired.
Terminal(s) ==
    /\ subs[s].phase = "polling"
    /\ (delivered[s] > 0 \/ ~subs[s].deadline)

\* Nothing of the page is pending: no request awaits its answer and no
\* timer is running.
Quiescent ==
    /\ posts = {}
    /\ \A s \in SubIds :
          inflight[s] = 0 /\ ~subs[s].pollInterval /\ ~subs[s].deadline

\* The create-job request of s failed: handleAnalyze threw, or the body it
\* got has no job identifier.
CreateFailed(s) ==
    \/ subs[s].phase = "submitfailed"
    \/ subs[s].phase = "polling" /\ subs[s].analysis_id = Undefined

SubmissionErrors == {ErrTransport, ErrSubmitFailed, ErrBadJson}

Timers(s) == <<subs[s].pollInterval, subs[s].deadline, subs[s].ticks>>

\* ---- C1 -----------------------------------------------------------------
\* C1: an invocation delivers a terminal outcome (setAnalysisResult, or a
\* terminal setError) at most once.
C1_AtMostOneDelivery == \A s \in SubIds : delivered[s] <= 1

\* ---- C2 -----------------------------------------------------------------
\* C2: loading eventually becomes false for every submission whose job was
\* created; in particular, once no request is awaited and no timer is left
\* to run, loading is false.
C2_LoadingEnds ==
    (Quiescent /\ \A s \in SubIds : ~CreateFailed(s)) => ~loading

\* ---- C3 -----------------------------------------------------------------
\* C3: when the deadline timer of an invocation fires and none of its polls
\* has seen completed or failed, error becomes the timeout message and
\* loading becomes false.
C3_TimeoutDelivered ==
    [][\A s \in SubIds :
          DeadlineStep(s) /\ delivered[s] = 0 =>
              error' = ErrTimeout /\ error' # ErrJobFailed /\ ~loading']_vars

\* ---- C4 -----------------------------------------------------------------
\* C4: after a terminal outcome of an invocation, the number of status
\* requests it has issued no longer grows.
C4_NoPollAfterTerminal ==
    [][\A s \in SubIds :
          Terminal(s) =>
              subs'[s].ticks = subs[s].ticks /\ inflight'[s] <= inflight[s]]_vars

\* A terminal outcome was delivered by a poll while the model would still
\* take a tick of that invocation, were its timer running.
C4_Witness ==
    \E s \in SubIds :
        /\ Terminal(s)
        /\ delivered[s] > 0
        /\ subs[s].deadline
        /\ TickDue(s)
        /\ NumTicks < MaxTicks
        /\ NumInflight < MaxInflight

\* ---- C5 -----------------------------------------------------------------
\* C5: a poll that sees completed sets analysisResult to the payload of that
\* poll and sets no error; a poll that sees failed sets the job-failed error
\* and sets no result; both set loading to false and clear the poll timer of
\* their invocation.
C5_TerminalPollOutcome ==
    [][\A s \in SubIds :
          /\ PollStep(s, "completed") =>
                /\ analysisResult'.status = "completed"
                /\ analysisResult'.website_id = subs[s].analysis_id
                /\ error' = error
                /\ ~loading'
                /\ ~subs'[s].pollInterval
          /\ PollStep(s, "failed") =>
                /\ error' = ErrJobFailed
                /\ analysisResult' = analysisResult
                /\ ~loading'
                /\ ~subs'[s].pollInterval]_vars

\* A poll of the latest invocation has just delivered a failure, and an
\* earlier one a result, each with loading false and the timer cleared.
C5_Witness ==
    /\ nsubs = 2
    /\ last = <<2, "failed">>
    /\ error = ErrJobFailed
    /\ ~loading
    /\ ~subs[2].pollInterval
    /\ subs[1].phase = "polling"
    /\ ~subs[1].pollInterval
    /\ job[1] = "completed"
    /\ delivered[1] = 1

\* ---- C6 -----------------------------------------------------------------
\* C6: a poll that throws changes neither the page state nor the timers,
\* and a completed poll that follows thrown ones still delivers its result.
C6_TransportErrorTolerated ==
    [][\A s \in SubIds :
          /\ PollStep(s, "throw") =>
                UNCHANGED <<analysisResult, error, loading, subs, delivered>>
          /\ PollStep(s, "completed") /\ s = nsubs /\ thrown > 0 =>
                /\ analysisResult'.status = "completed"
                /\ analysisResult'.website_id = subs[s].analysis_id
                /\ ~loading']_vars

\* Three polls of an invocation threw, its fourth saw completed, and the
\* result is on the page.
C6_Witness ==
    \E s \in SubIds :
        /\ s = nsubs
        /\ thrown = 3
        /\ subs[s].ticks = 4
        /\ inflight[s] = 0
        /\ last = <<s, "completed">>
        /\ delivered[s] = 1
        /\ analysisResult.status = "completed"
        /\ analysisResult.website_id = s
        /\ error = NoError
        /\ ~loading

\* ---- C7 -----------------------------------------------------------------
\* C7: handleAnalyze invoked with a url that is empty or not syntactically
\* a URL sets the validation error, sends no request, leaves loading false
\* and starts no timer.
C7_InvalidUrlRejected ==
    [][SubmitStep /\ ~IsUrlSyntax(url) =>
          /\ error' = ErrEmptyUrl
          /\ posts' = posts
          /\ ~loading'
          /\ subs'[nsubs'].phase = "rejected"]_vars

\* ---- C8 -----------------------------------------------------------------
\* C8: when the create-job request fails (transport failure, non-2xx, or a
\* body without a job identifier) the page shows a submission error, loading
\* is false, and neither timer of that invocation is started.
C8_CreateFailureStopsAll ==
    [][\A s \in SubIds :
          PostStep(s) /\ CreateFailed(s)' =>
              /\ error' \in SubmissionErrors
              /\ ~loading'
              /\ ~subs'[s].pollInterval
              /\ ~subs'[s].deadline]_vars

\* ---- C9 -----------------------------------------------------------------
\* C9: once a later invocation has started, no poll answer and no deadline
\* of an earlier invocation changes analysisResult, error or loading.
C9_NoInterference ==
    [][\A s \in SubIds :
          s < nsubs /\ (PollStepOf(s) \/ DeadlineStep(s)) =>
              UNCHANGED <<analysisResult, error, loading>>]_vars

\* ---- C10 ----------------------------------------------------------------
\* C10: the callback that cancels the poll loop of one invocation (a poll
\* that saw completed or failed, or the deadline) leaves the poll timer,
\* the deadline timer and the tick count of every other invocation as they
\* were.
C10_CancelOnlyOwnTimer ==
    [][\A s \in SubIds, t \in SubIds :
          /\ s # t
          /\ \/ PollStep(s, "completed")
             \/ PollStep(s, "failed")
             \/ DeadlineStep(s)
          => Timers(t)' = Timers(t)]_vars

\* A loop was cancelled while another invocation's timers were running, and
\* that other poll timer is still running.
C10_Witness ==
    /\ overlap
    /\ \E s \in SubIds, t \in SubIds :
          /\ s # t
          /\ subs[s].phase = "polling"
          /\ ~subs[s].pollInterval
          /\ subs[t].pollInterval
          /\ subs[t].deadline

\* ---- C11 ----------------------------------------------------------------
\* C11: analysisResult is non-null only if a status poll for the job of the
\* latest invocation returned completed: it is the payload of that job, and
\* it is null from the start of an invocation until that poll is processed.
C11_ResultOnlyOfCurrentJob ==
    analysisResult # Null =>
        /\ nsubs > 0
        /\ subs[nsubs].phase = "polling"
        /\ job[nsubs] = "completed"
        /\ delivered[nsubs] > 0
        /\ analysisResult.status = "completed"
        /\ analysisResult.website_id = subs[nsubs].analysis_id

\* ---- C12 ----------------------------------------------------------------
\* C12: once the page component is torn down (the caller navigated away
\* while an invocation was polling), no invocation issues a further status
\* request and none delivers an outcome.
C12_CancelStopsPolling ==
    [][~mounted =>
          /\ \A s \in SubIds :
                /\ subs'[s].ticks = subs[s].ticks
                /\ inflight'[s] <= inflight[s]
                /\ delivered'[s] = delivered[s]
          /\ UNCHANGED <<analysisResult, error, loading>>]_vars

\* ---- C13 ----------------------------------------------------------------
\* C13: a completed payload that lacks website_id or url is never delivered
\* as a result; the poll that receives it delivers an error outcome
\* instead.
C13_MissingIdentityRejected ==
    [][\A s \in SubIds :
          PollStep(s, "completed") /\ ~(IdentityFields \subseteq DOMAIN body) =>
              /\ analysisResult' = Null
              /\ error' # NoError
              /\ ~loading']_vars

\* ---- C14 ----------------------------------------------------------------
\* C14: a completed payload is accepted as the result whatever subset of
\* its optional sections is missing, and the delivered value has exactly
\* the sections of the payload, each with the payload's value: a missing
\* section stays absent (its card is not rendered), an empty one stays
\* present and empty (its card is rendered).
C14_AbsentSectionsPreserved ==
    [][\A s \in SubIds :
          PollStep(s, "completed") =>
              /\ analysisResult' # Null
              /\ analysisResult'.status = "completed"
              /\ error' = error
              /\ \A sec \in Sections :
                    /\ sec \in DOMAIN analysisResult' <=> sec \in DOMAIN body
                    /\ sec \in DOMAIN body => analysisResult'[sec] = body[sec]
                    /\ SectionShown(analysisResult', sec) <=> sec \in DOMAIN body]_vars

\* A delivered result with one section absent, one empty and one with
\* content.
C14_Witness ==
    /\ last = <<1, "completed">>
    /\ analysisResult # Null
    /\ "technology_stack" \notin DOMAIN analysisResult
    /\ "technology_stack" \notin DOMAIN body
    /\ "intent_analysis" \in DOMAIN analysisResult
    /\ analysisResult["intent_analysis"] = "empty"
    /\ "user_experience" \in DOMAIN analysisResult
    /\ analysisResult["user_experience"] = "full"
    /\ ~SectionShown(analysisResult, "technology_stack")
    /\ SectionShown(analysisResult, "intent_analysis")

\* ---- C15 ----------------------------------------------------------------
\* C15: a poll whose answer is non-2xx, or 2xx with status pending or
\* running, changes nothing: analysisResult, error and loading keep their
\* values, no outcome is delivered, and the timers of every invocation
\* (the poll timer of this one included) stay as they were.
C15_NonTerminalPollIsNoOp ==
    [][\A s \in SubIds, r \in {"non2xx", "pending", "running"} :
          PollStep(s, r) =>
              UNCHANGED <<analysisResult, error, loading, subs, delivered>>]_vars

\* A poll has just been answered with running; the page still loads, shows
\* nothing, and the poll timer of that invocation is active.
C15_Witness ==
    \E s \in SubIds :
        /\ last = <<s, "running">>
        /\ subs[s].ticks >= 2
        /\ subs[s].pollInterval
        /\ subs[s].deadline
        /\ loading
        /\ analysisResult = Null
        /\ error = NoError

\* ---- C16 ----------------------------------------------------------------
\* C16: every tick of the interval issues exactly one status request and
\* nothing else issues one, and the requests an invocation has issued never
\* number more than TimeoutMs / PollIntervalMs = 60.
C16_AtMostSixtyPolls ==
    [][\A s \in SubIds :
          /\ subs'[s].ticks # subs[s].ticks \/ inflight'[s] > inflight[s] =>
                /\ subs'[s].ticks = subs[s].ticks + 1
                /\ inflight'[s] = inflight[s] + 1
          /\ subs'[s].ticks <= TimeoutMs \div PollIntervalMs
          /\ subs'[s].ticks <= 60]_vars

\* The job never finished: the invocation issued its sixtieth request, all
\* were answered, and the deadline has fired.
C16_Witness ==
    /\ subs[1].ticks = 60
    /\ inflight[1] = 0
    /\ ~subs[1].deadline
    /\ ~subs[1].pollInterval
    /\ delivered[1] = 0

\* ---- C17 ----------------------------------------------------------------
\* C17: the page never holds a result and an error at the same time.
C17_ResultXorError == ~(analysisResult # Null /\ error # NoError)

\* ---- C18 ----------------------------------------------------------------
\* C18: every readiness loop of run.sh stops within its attempt limit (30
\* for the database and Redis, 60 for the backend and the frontend), and the
\* banner is printed only if all four readiness checks succeeded.
C18_BannerOnlyIfAllReady ==
    /\ sh.pc \in {"database", "redis"} => sh.attempt <= 30 + 1
    /\ sh.pc \in {"backend", "frontend"} => sh.attempt <= 60 + 1
    /\ sh.banner => Checks \subseteq sh.ok

====
